---- MODULE Spec2Model ----
(***************************************************************************)
(* Model of eventforwarder.Service (src/eventforwarder/eventforwarder.go): *)
(* the websocket client registry wsClients guarded by clientMux, the       *)
(* broadcaster ForwardEvent, and the two goroutines started for every      *)
(* admitted connection, pingWebSocket and handleClose, plus the telemetry  *)
(* loop reportWebSocketCount.                                              *)
(*                                                                         *)
(* Every goroutine is a process with a program counter; one action is one  *)
(* statement (or one blocking call) of the source, so that the             *)
(* interleavings of the goroutines are the interleavings of the model.     *)
(*                                                                         *)
(* Time is counted in seconds.  Under Spec the clock stands still and the  *)
(* ticker and the read deadline may fire at any moment; under SpecT the    *)
(* clock advances and they fire when they are due.  SpecL, SpecE and SpecR *)
(* follow, with the clock standing still, what Spec leaves out: the errors *)
(* of the ping writes under fair scheduling, the payload each broadcast    *)
(* write puts on the wire, and the reporter's loop.                        *)
(***************************************************************************)
EXTENDS Integers, FiniteSets, Sequences, TLC

\* ------------------------------------------------------------------ bounds
MaxConns == 2
MaxTime == 100
MaxRounds == 2

\* ------------------------------------------------- constants of the source
writeWait == 10
pongWait == 60
pingPeriod == 30

\* The clock advances in steps of the shortest timeout of the source.
TickStep == writeWait

\* Upgrade requests; request r, when its upgrade succeeds, yields connection r.
Reqs == 1..MaxConns
\* The nil *websocket.Conn that upgrader.Upgrade returns beside an error.
NIL == 0
Conns == Reqs

\* Goroutine identities (lock holders, writers of a connection).
NoTask == <<"none", 0>>
FE == <<"fe", 0>>
HW(r) == <<"hw", r>>
PG(r) == <<"pg", r>>
HC(r) == <<"hc", r>>

\* Event keys offered by the hub; the first two are the forwarded ones.
Keys == {"login", "card-read-error", "heartbeat-data"}

\* Events offered by the hub, as <<Key, Value>>.
Events == {<<"login", "userX">>, <<"card-read-error", "userY">>,
           <<"heartbeat-data", "ignored">>}

VARIABLES
  wsClients,    \* keys of the map s.wsClients
  count,        \* the map's element count, what len(s.wsClients) returns
  mux,          \* holder of s.clientMux, NoTask when free
  crashed,      \* the process died of a panic or a runtime fatal error
  upg,          \* per request: "new", "ok", "fail" (result of Upgrade)
  hwPc,         \* per request: position inside HandleWebsocket
  fePc,         \* position inside ForwardEvent
  feKey,        \* e.Key of the event being forwarded
  feCur,        \* the loop variable c of ForwardEvent
  feVisited,    \* connections the range loop has produced in this pass
  feOk,         \* connections whose WriteJSON returned nil in this pass
  feFailed,     \* connections whose WriteJSON returned an error in this pass
  feAtLock,     \* history: the map's keys when this pass took the lock
  feVal,        \* e.Value of the event being forwarded, "none" while not followed
  feSent,       \* history: per connection, what WriteJSON put on the wire in this pass
  pgPc,         \* per request: position inside pingWebSocket
  pgErr,        \* history, per request: a ping write has returned an error
  hcPc,         \* per request: position inside handleClose
  hcSnap,       \* per request: what the unlocked delete read from the map
  hcCause,      \* per request: why ReadMessage returned an error
  closeCalls,   \* per connection: number of c.Close() calls
  closeFrames,  \* per connection: number of close frames written
  writers,      \* per connection: goroutines inside a write method, see InWrite
  peer,         \* per connection: "up", "silent" or "gone"
  pongs,        \* per connection: a pong frame waits to be read
  writeDeadline,\* per connection: the write deadline, 0 while never set
  messenger,    \* "unset", "ok" or "nil" (BuildMessenger's result)
  reported,     \* Value of the count event of this round, -1 before it is built
  rpPc,         \* position inside reportWebSocketCount
  rpLogged,     \* the length the debug line of this round printed, -1 before
  rpRounds,     \* history: rounds of the reporter's loop begun (up to MaxRounds)
  rpSends,      \* history: SendEvent calls made (up to MaxRounds)
  now,          \* the clock, in seconds
  readDeadline, \* per connection: the read deadline
  nextPing,     \* per request: when the ping ticker fires next
  silentAt      \* per connection: when the peer stopped answering, or -1

regVars == <<wsClients, count>>
hwVars == <<upg, hwPc>>
feVars == <<fePc, feKey, feCur, feVisited, feOk, feFailed, feAtLock, feVal,
           feSent>>
pgVars == <<pgPc, pgErr>>
hcVars == <<hcPc, hcSnap, hcCause>>
connVars == <<closeCalls, closeFrames, writers, peer, pongs>>
rpVars == <<messenger, reported, rpPc, rpLogged, rpRounds, rpSends>>
clockVars == <<now, readDeadline, writeDeadline, nextPing, silentAt>>

vars == <<wsClients, count, mux, crashed, upg, hwPc, fePc, feKey, feCur,
          feVisited, feOk, feFailed, feAtLock, feVal, feSent, pgPc, pgErr, hcPc,
          hcSnap, hcCause, closeCalls, closeFrames, writers, peer, pongs,
          messenger, reported, rpPc, rpLogged, rpRounds, rpSends, now,
          readDeadline, writeDeadline, nextPing, silentAt>>

\* ------------------------------------------------------------- helpers

\* Every upgrade that succeeds yields the same connection.
ConnOfFirst(r) == IF upg[r] = "ok" THEN 1 ELSE NIL

\* The map key request r registered: its connection, or nil when Upgrade failed.
ConnOf(r) == IF upg[r] = "ok" THEN r ELSE NIL

\* A filter that lets every key through.
InAllowSetAny(k) == k = k

\* e.Key == "login" || e.Key == "card-read-error"
InAllowSet(k) == k = "login" \/ k = "card-read-error"

\* s.wsClients[c] = true
MapInsert(m, k) == m \cup {k}

\* A delete that leaves the key in the map.
MapDeleteKeep(m, k) == m

\* delete(s.wsClients, c)
MapDelete(m, k) == m \ {k}

\* The element count after inserting k in a map that holds m with count n.
CountAfterInsert(m, n, k) == IF k \in m THEN n ELSE n + 1

\* The element count after deleting k from a map that holds m with count n.
CountAfterDelete(m, n, k) == IF k \in m THEN n - 1 ELSE n

\* The record of a goroutine inside a write method of a connection: the
\* goroutine and the write deadline the write runs under (0: none was set).
InWrite(task, dl) == <<task[1], task[2], dl>>

\* The writers ws of a connection without the goroutine task.
Leave(ws, task) == {w \in ws : <<w[1], w[2]>> # task}

\* A write on connection c succeeds while the channel is open and the peer's
\* end still takes data.
WriteSucceeds(c) == closeCalls[c] = 0 /\ peer[c] # "gone"

\* ------------------------------------------------------------------ Init
\* New(): an empty map, a free mutex, the reporter goroutine started.
Init ==
  /\ wsClients = {}
  /\ count = 0
  /\ mux = NoTask
  /\ crashed = FALSE
  /\ upg = [r \in Reqs |-> "new"]
  /\ hwPc = [r \in Reqs |-> "idle"]
  /\ fePc = "idle"
  /\ feKey = "none"
  /\ feCur = NIL
  /\ feVisited = {}
  /\ feOk = {}
  /\ feFailed = {}
  /\ feAtLock = {}
  /\ feVal = "none"
  /\ feSent = [c \in Conns |-> <<>>]
  /\ pgPc = [r \in Reqs |-> "none"]
  /\ pgErr = [r \in Reqs |-> FALSE]
  /\ hcPc = [r \in Reqs |-> "none"]
  /\ hcSnap = [r \in Reqs |-> <<FALSE, 0>>]
  /\ hcCause = [r \in Reqs |-> "none"]
  /\ closeCalls = [c \in Conns |-> 0]
  /\ closeFrames = [c \in Conns |-> 0]
  /\ writers = [c \in Conns |-> {}]
  /\ peer = [c \in Conns |-> "up"]
  /\ pongs = [c \in Conns |-> FALSE]
  /\ messenger = "unset"
  /\ reported = -1
  /\ rpPc = "build"
  /\ rpLogged = -1
  /\ rpRounds = 0
  /\ rpSends = 0
  /\ now = 0
  /\ readDeadline = [c \in Conns |-> 0]
  /\ nextPing = [r \in Reqs |-> 0]
  /\ writeDeadline = [c \in Conns |-> 0]
  /\ silentAt = [c \in Conns |-> -1]

\* ------------------------------------------------------- HandleWebsocket
\* Line 47: upgrader.Upgrade succeeds, or fails and returns a nil connection;
\* the error is logged and the function goes on (lines 48-50 do not return).
HW_Upgrade(r) ==
  /\ ~crashed
  /\ hwPc[r] = "idle"
  /\ \E res \in {"ok", "fail"} : upg' = [upg EXCEPT ![r] = res]
  /\ hwPc' = [hwPc EXCEPT ![r] = "lock"]
  /\ UNCHANGED <<regVars, mux, crashed, feVars, pgVars, hcVars, connVars,
                 rpVars, clockVars>>

\* Line 52: s.clientMux.Lock()
HW_Lock(r) ==
  /\ ~crashed
  /\ hwPc[r] = "lock"
  /\ mux = NoTask
  /\ mux' = HW(r)
  /\ hwPc' = [hwPc EXCEPT ![r] = "locked"]
  /\ UNCHANGED <<regVars, crashed, upg, feVars, pgVars, hcVars, connVars,
                 rpVars, clockVars>>

\* Line 53: s.wsClients[c] = true
HW_Register(r) ==
  /\ ~crashed
  /\ hwPc[r] = "locked"
  /\ wsClients' = MapInsert(wsClients, ConnOf(r))
  /\ count' = CountAfterInsert(wsClients, count, ConnOf(r))
  /\ hwPc' = [hwPc EXCEPT ![r] = "goreader"]
  /\ UNCHANGED <<mux, crashed, upg, feVars, pgVars, hcVars, connVars, rpVars,
                 clockVars>>

\* A HandleWebsocket that goes on to line 55 and starts no reader.
HW_GoReaderNone(r) ==
  /\ ~crashed
  /\ hwPc[r] = "goreader"
  /\ hwPc' = [hwPc EXCEPT ![r] = "goping"]
  /\ UNCHANGED <<regVars, mux, crashed, upg, feVars, pgVars, hcVars, connVars,
                 rpVars, clockVars>>

\* Line 54: go s.handleClose(c)
HW_GoReader(r) ==
  /\ ~crashed
  /\ hwPc[r] = "goreader"
  /\ hcPc' = [hcPc EXCEPT ![r] = "start"]
  /\ hwPc' = [hwPc EXCEPT ![r] = "goping"]
  /\ UNCHANGED <<regVars, mux, crashed, upg, feVars, pgVars, hcSnap, hcCause,
                 connVars, rpVars, clockVars>>

\* Line 55: go s.pingWebSocket(c)
HW_GoPing(r) ==
  /\ ~crashed
  /\ hwPc[r] = "goping"
  /\ pgPc' = [pgPc EXCEPT ![r] = "start"]
  /\ hwPc' = [hwPc EXCEPT ![r] = "unlock"]
  /\ UNCHANGED <<regVars, mux, crashed, upg, feVars, pgErr, hcVars, connVars,
                 rpVars, clockVars>>

\* Line 56: s.clientMux.Unlock(), then return nil
HW_Unlock(r) ==
  /\ ~crashed
  /\ hwPc[r] = "unlock"
  /\ mux' = NoTask
  /\ hwPc' = [hwPc EXCEPT ![r] = "done"]
  /\ UNCHANGED <<regVars, crashed, upg, feVars, pgVars, hcVars, connVars,
                 rpVars, clockVars>>

\* ---------------------------------------------------------- ForwardEvent
\* A ForwardEvent that goes on to the lock whatever the key.
FE_FilterNone(k) ==
  /\ ~crashed
  /\ fePc = "idle"
  /\ feKey' = k
  /\ fePc' = "lock"
  /\ UNCHANGED <<regVars, mux, crashed, hwVars, feCur, feVisited, feOk,
                 feFailed, feAtLock, feSent, pgVars, hcVars, connVars, rpVars,
                 clockVars>>

\* Line 64: the filter on e.Key; an event that does not pass returns at once.
FE_Filter(k) ==
  /\ ~crashed
  /\ fePc = "idle"
  /\ feKey' = k
  /\ fePc' = IF InAllowSet(k) THEN "lock" ELSE "ret"
  /\ UNCHANGED <<regVars, mux, crashed, hwVars, feCur, feVisited, feOk,
                 feFailed, feAtLock, feSent, pgVars, hcVars, connVars, rpVars,
                 clockVars>>

\* ForwardEvent is called with an event of key k (its value is not followed).
FE_Call(k) == FE_Filter(k) /\ UNCHANGED feVal

\* ForwardEvent is called with an event of key k and value v.
FE_CallE(k, v) == FE_Filter(k) /\ feVal' = v

\* Line 66: s.clientMux.Lock()
FE_Lock ==
  /\ ~crashed
  /\ fePc = "lock"
  /\ mux = NoTask
  /\ mux' = FE
  /\ feAtLock' = wsClients
  /\ fePc' = "iter"
  /\ UNCHANGED <<regVars, crashed, hwVars, feKey, feCur, feVisited, feOk,
                 feFailed, feVal, feSent, pgVars, hcVars, connVars, rpVars,
                 clockVars>>

\* Lines 67-69: the range loop produces a key it has not produced yet;
\* c.SetWriteDeadline(time.Now().Add(writeWait)) and c.WriteJSON(e) begins.
\* On the nil key SetWriteDeadline dereferences nil and the process panics.
FE_Next ==
  /\ ~crashed
  /\ fePc = "iter"
  /\ \E c \in wsClients \ feVisited :
       /\ feCur' = c
       /\ feVisited' = feVisited \cup {c}
       /\ IF c = NIL
            THEN /\ crashed' = TRUE
                 /\ UNCHANGED <<fePc, writers, writeDeadline>>
            ELSE /\ fePc' = "writing"
                 /\ writers' = [writers EXCEPT ![c] = @ \cup {InWrite(FE, now + writeWait)}]
                 /\ writeDeadline' = [writeDeadline EXCEPT ![c] = now + writeWait]
                 /\ UNCHANGED crashed
  /\ UNCHANGED <<regVars, mux, hwVars, feKey, feOk, feFailed, feAtLock, feVal,
                 feSent, pgVars, hcVars, closeCalls, closeFrames, peer, pongs,
                 rpVars, now, readDeadline, nextPing, silentAt>>

\* Lines 69-71: WriteJSON returns; nil keeps the loop going, an error is logged.
FE_WriteReturn ==
  /\ ~crashed
  /\ fePc = "writing"
  /\ writers' = [writers EXCEPT ![feCur] = Leave(@, FE)]
  /\ IF WriteSucceeds(feCur)
       THEN /\ feOk' = feOk \cup {feCur}
            /\ fePc' = "iter"
            /\ UNCHANGED feFailed
       ELSE /\ feFailed' = feFailed \cup {feCur}
            /\ fePc' = "delete"
            /\ UNCHANGED feOk
  /\ UNCHANGED <<regVars, mux, crashed, hwVars, feKey, feCur, feVisited,
                 feAtLock, feVal, pgVars, hcVars, closeCalls, closeFrames, peer,
                 pongs, rpVars, clockVars>>

\* WriteJSON returns (what went on the wire is not followed).
FE_WriteEnd == FE_WriteReturn /\ UNCHANGED feSent

\* Line 69: WriteJSON(e) encodes the event as a JSON object; of its fields the
\* key and the value are followed.
WireRecord(k, v) == [key |-> k, value |-> v]

\* What a write of the event <<k, v>> on connection c may have put on the
\* wire: the encoded event, or, when another goroutine is inside a write
\* method of c at the same time (they share the connection's write buffer),
\* possibly a frame that holds something else.
WirePayloads(c, k, v) ==
  IF Cardinality(writers[c]) > 1
    THEN {WireRecord(k, v), [key |-> "garbled", value |-> "garbled"]}
    ELSE {WireRecord(k, v)}

\* WriteJSON returns; a write that returned nil has put a message on the wire.
FE_WriteEndE ==
  /\ FE_WriteReturn
  /\ IF WriteSucceeds(feCur)
       THEN \E p \in WirePayloads(feCur, feKey, feVal) :
              feSent' = [feSent EXCEPT ![feCur] = Append(@, p)]
       ELSE UNCHANGED feSent

\* Line 72: delete(s.wsClients, c)
FE_Delete ==
  /\ ~crashed
  /\ fePc = "delete"
  /\ wsClients' = MapDelete(wsClients, feCur)
  /\ count' = CountAfterDelete(wsClients, count, feCur)
  /\ fePc' = "closeframe"
  /\ UNCHANGED <<mux, crashed, hwVars, feKey, feCur, feVisited, feOk,
                 feFailed, feAtLock, feVal, feSent, pgVars, hcVars, connVars,
                 rpVars, clockVars>>

\* Line 73: c.WriteMessage(websocket.CloseMessage, []byte{}) begins
FE_CloseFrameBegin ==
  /\ ~crashed
  /\ fePc = "closeframe"
  /\ writers' = [writers EXCEPT ![feCur] = @ \cup {InWrite(FE, writeDeadline[feCur])}]
  /\ fePc' = "cfwriting"
  /\ UNCHANGED <<regVars, mux, crashed, hwVars, feKey, feCur, feVisited, feOk,
                 feFailed, feAtLock, feVal, feSent, pgVars, hcVars, closeCalls,
                 closeFrames, peer, pongs, rpVars, clockVars>>

\* Line 73: WriteMessage returns; its result is dropped.
FE_CloseFrameEnd ==
  /\ ~crashed
  /\ fePc = "cfwriting"
  /\ writers' = [writers EXCEPT ![feCur] = Leave(@, FE)]
  /\ closeFrames' = [closeFrames EXCEPT ![feCur] = @ + 1]
  /\ fePc' = "close"
  /\ UNCHANGED <<regVars, mux, crashed, hwVars, feKey, feCur, feVisited, feOk,
                 feFailed, feAtLock, feVal, feSent, pgVars, hcVars, closeCalls,
                 peer, pongs, rpVars, clockVars>>

\* Line 74: c.Close()
FE_Close ==
  /\ ~crashed
  /\ fePc = "close"
  /\ closeCalls' = [closeCalls EXCEPT ![feCur] = @ + 1]
  /\ fePc' = "iter"
  /\ UNCHANGED <<regVars, mux, crashed, hwVars, feKey, feCur, feVisited, feOk,
                 feFailed, feAtLock, feVal, feSent, pgVars, hcVars, closeFrames,
                 writers, peer, pongs, rpVars, clockVars>>

\* Lines 76-78: the range loop has no key left; s.clientMux.Unlock()
FE_Unlock ==
  /\ ~crashed
  /\ fePc = "iter"
  /\ wsClients \ feVisited = {}
  /\ mux' = NoTask
  /\ fePc' = "ret"
  /\ UNCHANGED <<regVars, crashed, hwVars, feKey, feCur, feVisited, feOk,
                 feFailed, feAtLock, feVal, feSent, pgVars, hcVars, connVars,
                 rpVars, clockVars>>

\* Line 81: ForwardEvent returns; its locals are gone.
FE_Return ==
  /\ ~crashed
  /\ fePc = "ret"
  /\ fePc' = "idle"
  /\ feKey' = "none"
  /\ feCur' = NIL
  /\ feVisited' = {}
  /\ feOk' = {}
  /\ feFailed' = {}
  /\ feAtLock' = {}
  /\ feVal' = "none"
  /\ feSent' = [c \in Conns |-> <<>>]
  /\ UNCHANGED <<regVars, mux, crashed, hwVars, pgVars, hcVars, connVars,
                 rpVars, clockVars>>

\* --------------------------------------------------------- pingWebSocket
\* Line 86: ping := time.NewTicker(pingPeriod)
PG_Start(r) ==
  /\ ~crashed
  /\ pgPc[r] = "start"
  /\ nextPing' = [nextPing EXCEPT ![r] = now + pingPeriod]
  /\ pgPc' = [pgPc EXCEPT ![r] = "wait"]
  /\ UNCHANGED <<regVars, mux, crashed, hwVars, feVars, pgErr, hcVars,
                 connVars, rpVars, now, readDeadline, writeDeadline, silentAt>>

\* Lines 90-92: the ticker fires; c.SetWriteDeadline(time.Now().Add(writeWait))
\* and c.WriteMessage(websocket.PingMessage, []byte{}) begins.  On a nil
\* connection SetWriteDeadline dereferences nil and the process panics.
PingFire(r) ==
  /\ ~crashed
  /\ pgPc[r] = "wait"
  /\ nextPing' = [nextPing EXCEPT ![r] = IF now >= @ THEN @ + pingPeriod ELSE @]
  /\ IF ConnOf(r) = NIL
       THEN /\ crashed' = TRUE
            /\ UNCHANGED <<pgPc, writers, writeDeadline>>
       ELSE /\ pgPc' = [pgPc EXCEPT ![r] = "writing"]
            /\ writers' = [writers EXCEPT ![r] = @ \cup {InWrite(PG(r), now + writeWait)}]
            /\ writeDeadline' = [writeDeadline EXCEPT ![r] = now + writeWait]
            /\ UNCHANGED crashed
  /\ UNCHANGED <<regVars, mux, hwVars, feVars, pgErr, hcVars, closeCalls,
                 closeFrames, peer, pongs, rpVars, now, readDeadline, silentAt>>

\* The ticker fires (the clock stands still: at any moment).
PG_Tick(r) == PingFire(r)

\* The ticker fires when it is due.
PG_TickT(r) == now >= nextPing[r] /\ PingFire(r)

\* Lines 92-95: WriteMessage returns.  On an error the break leaves the select
\* statement only, so the for loop goes on to wait for the next tick.  The
\* write has put a ping on the wire when it succeeded.
PingWritten(r) ==
  /\ ~crashed
  /\ pgPc[r] = "writing"
  /\ writers' = [writers EXCEPT ![r] = Leave(@, PG(r))]
  /\ pgPc' = [pgPc EXCEPT ![r] = "wait"]
  /\ UNCHANGED <<regVars, mux, crashed, hwVars, feVars, hcVars, closeCalls,
                 closeFrames, peer, rpVars, clockVars>>

\* WriteMessage returns (the clock stands still: the peer's pong, which only
\* moves the read deadline, is not followed).
PG_WriteEnd(r) == PingWritten(r) /\ UNCHANGED <<pongs, pgErr>>

\* WriteMessage returns, and whether it returned an error is remembered.
PG_WriteEndL(r) ==
  /\ PingWritten(r)
  /\ pgErr' = [pgErr EXCEPT ![r] = @ \/ ~WriteSucceeds(r)]
  /\ UNCHANGED pongs

\* WriteMessage returns; a peer that is up answers a ping that was written
\* with a pong at once.
PG_WriteEndT(r) ==
  /\ PingWritten(r)
  /\ pongs' = [pongs EXCEPT ![r] = @ \/ (WriteSucceeds(r) /\ peer[r] = "up")]
  /\ UNCHANGED pgErr

\* ----------------------------------------------------------- handleClose
\* A read deadline of twice pongWait.
ReadDeadlineLate(t) == t + pongWait + pongWait

\* Lines 107, 108: time.Now().Add(pongWait) at time t
ReadDeadlineAt(t) == t + pongWait

\* Lines 106-108: SetReadLimit, SetReadDeadline(time.Now().Add(pongWait)),
\* SetPongHandler.  On a nil connection SetReadLimit dereferences nil: the
\* goroutine panics and runs its deferred function.
HC_Start(r) ==
  /\ ~crashed
  /\ hcPc[r] = "start"
  /\ IF ConnOf(r) = NIL
       THEN /\ hcPc' = [hcPc EXCEPT ![r] = "deferred"]
            /\ hcCause' = [hcCause EXCEPT ![r] = "panic"]
            /\ UNCHANGED readDeadline
       ELSE /\ hcPc' = [hcPc EXCEPT ![r] = "read"]
            /\ readDeadline' = [readDeadline EXCEPT ![r] = ReadDeadlineAt(now)]
            /\ UNCHANGED hcCause
  /\ UNCHANGED <<regVars, mux, crashed, hwVars, feVars, pgVars, hcSnap,
                 connVars, rpVars, now, writeDeadline, nextPing, silentAt>>

\* A pong handler that leaves the read deadline where it was.
PongHandlerStale(dl, c) == dl

\* Line 108: the pong handler, called inside ReadMessage for a pong frame:
\* c.SetReadDeadline(time.Now().Add(pongWait))
PongHandler(dl, c) == [dl EXCEPT ![c] = ReadDeadlineAt(now)]

\* Line 110: ReadMessage takes a pong frame and stays blocked.
HC_Pong(r) ==
  /\ ~crashed
  /\ hcPc[r] = "read"
  /\ pongs[r]
  /\ closeCalls[r] = 0
  /\ pongs' = [pongs EXCEPT ![r] = FALSE]
  /\ readDeadline' = PongHandler(readDeadline, r)
  /\ UNCHANGED <<regVars, mux, crashed, hwVars, feVars, pgVars, hcVars,
                 closeCalls, closeFrames, writers, peer, rpVars, now,
                 writeDeadline, nextPing, silentAt>>

\* Lines 110-116: ReadMessage returns an error because the channel was closed
\* on this side or the peer is gone; break runs the deferred function.
HC_ReadErr(r) ==
  /\ ~crashed
  /\ hcPc[r] = "read"
  /\ closeCalls[r] > 0 \/ peer[r] = "gone"
  /\ hcCause' = [hcCause EXCEPT ![r] = IF closeCalls[r] > 0 THEN "closed" ELSE "peer"]
  /\ hcPc' = [hcPc EXCEPT ![r] = "deferred"]
  /\ UNCHANGED <<regVars, mux, crashed, hwVars, feVars, pgVars, hcSnap,
                 connVars, rpVars, clockVars>>

\* Lines 110-116: ReadMessage returns a timeout error: the read deadline passed.
ReadExpire(r) ==
  /\ ~crashed
  /\ hcPc[r] = "read"
  /\ closeCalls[r] = 0
  /\ hcCause' = [hcCause EXCEPT ![r] = "timeout"]
  /\ hcPc' = [hcPc EXCEPT ![r] = "deferred"]
  /\ UNCHANGED <<regVars, mux, crashed, hwVars, feVars, pgVars, hcSnap,
                 connVars, rpVars, clockVars>>

\* The read deadline passes (the clock stands still: at any moment).
HC_Timeout(r) == ReadExpire(r)

\* The read deadline passes when it is due.
HC_TimeoutT(r) == now >= readDeadline[r] /\ ReadExpire(r)

\* Line 102: delete(s.wsClients, c), run without clientMux.  The delete is not
\* atomic with respect to the other goroutines: it looks the key up and reads
\* the element count here ...
HC_DeleteBegin(r) ==
  /\ ~crashed
  /\ hcPc[r] = "deferred"
  /\ hcSnap' = [hcSnap EXCEPT ![r] = <<ConnOf(r) \in wsClients, count>>]
  /\ hcPc' = [hcPc EXCEPT ![r] = "deleting"]
  /\ UNCHANGED <<regVars, mux, crashed, hwVars, feVars, pgVars, hcCause,
                 connVars, rpVars, clockVars>>

\* ... and clears the entry and stores the decremented count here.
HC_DeleteEnd(r) ==
  /\ ~crashed
  /\ hcPc[r] = "deleting"
  /\ wsClients' = MapDelete(wsClients, ConnOf(r))
  /\ count' = IF hcSnap[r][1] THEN hcSnap[r][2] - 1 ELSE count
  /\ hcSnap' = [hcSnap EXCEPT ![r] = <<FALSE, 0>>]
  /\ hcPc' = [hcPc EXCEPT ![r] = "closeframe"]
  /\ UNCHANGED <<mux, crashed, hwVars, feVars, pgVars, hcCause,
                 connVars, rpVars, clockVars>>

\* Line 103: c.WriteMessage(websocket.CloseMessage, []byte{}) begins.  On a nil
\* connection it dereferences nil inside the deferred function of a panicking
\* goroutine: the process dies.
HC_CloseFrameBegin(r) ==
  /\ ~crashed
  /\ hcPc[r] = "closeframe"
  /\ IF ConnOf(r) = NIL
       THEN /\ crashed' = TRUE
            /\ UNCHANGED <<hcPc, writers>>
       ELSE /\ hcPc' = [hcPc EXCEPT ![r] = "cfwriting"]
            /\ writers' = [writers EXCEPT ![r] = @ \cup {InWrite(HC(r), writeDeadline[r])}]
            /\ UNCHANGED crashed
  /\ UNCHANGED <<regVars, mux, hwVars, feVars, pgVars, hcSnap, hcCause,
                 closeCalls, closeFrames, peer, pongs, rpVars, clockVars>>

\* Line 103: WriteMessage returns; its result is dropped.
HC_CloseFrameEnd(r) ==
  /\ ~crashed
  /\ hcPc[r] = "cfwriting"
  /\ writers' = [writers EXCEPT ![r] = Leave(@, HC(r))]
  /\ closeFrames' = [closeFrames EXCEPT ![r] = @ + 1]
  /\ hcPc' = [hcPc EXCEPT ![r] = "close"]
  /\ UNCHANGED <<regVars, mux, crashed, hwVars, feVars, pgVars, hcSnap, hcCause,
                 closeCalls, peer, pongs, rpVars, clockVars>>

\* Line 104: c.Close(); the goroutine ends.
HC_Close(r) ==
  /\ ~crashed
  /\ hcPc[r] = "close"
  /\ closeCalls' = [closeCalls EXCEPT ![r] = @ + 1]
  /\ hcPc' = [hcPc EXCEPT ![r] = "done"]
  /\ UNCHANGED <<regVars, mux, crashed, hwVars, feVars, pgVars, hcSnap, hcCause,
                 closeFrames, writers, peer, pongs, rpVars, clockVars>>

\* ------------------------------------------------------------- the peers
\* The listener behind connection c stops answering (it sends no frame any
\* more; what is written to it is still taken).
PeerSilent(c) ==
  /\ ~crashed
  /\ hcPc[c] # "none"
  /\ upg[c] = "ok"
  /\ peer[c] = "up"
  /\ peer' = [peer EXCEPT ![c] = "silent"]
  /\ silentAt' = [silentAt EXCEPT ![c] = now]
  /\ UNCHANGED <<regVars, mux, crashed, hwVars, feVars, pgVars, hcVars,
                 closeCalls, closeFrames, writers, pongs, rpVars, now,
                 readDeadline, writeDeadline, nextPing>>

\* The listener behind connection c goes away: reads and writes on c fail.
PeerGone(c) ==
  /\ ~crashed
  /\ hcPc[c] # "none"
  /\ upg[c] = "ok"
  /\ peer[c] # "gone"
  /\ peer' = [peer EXCEPT ![c] = "gone"]
  /\ UNCHANGED <<regVars, mux, crashed, hwVars, feVars, pgVars, hcVars,
                 closeCalls, closeFrames, writers, pongs, rpVars, clockVars>>

\* -------------------------------------------------- reportWebSocketCount
\* n + 1, held at the bound of the history counters.
Counted(n) == IF n < MaxRounds THEN n + 1 ELSE n

\* Lines 123-129: BuildMessenger returns a messenger, or nil and an error that
\* is logged; the function goes on to its loop either way.
RP_Build ==
  /\ ~crashed
  /\ rpPc = "build"
  /\ \E m \in {"ok", "nil"} : messenger' = m
  /\ rpPc' = "log"
  /\ UNCHANGED <<regVars, mux, crashed, hwVars, feVars, pgVars, hcVars,
                 connVars, reported, rpLogged, rpRounds, rpSends, clockVars>>

\* Line 131: a round of the loop begins; the debug line reads
\* len(s.wsClients), without clientMux.
RP_Log ==
  /\ ~crashed
  /\ rpPc = "log"
  /\ rpLogged' = count
  /\ rpRounds' = Counted(rpRounds)
  /\ rpPc' = "value"
  /\ UNCHANGED <<regVars, mux, crashed, hwVars, feVars, pgVars, hcVars,
                 connVars, messenger, reported, rpSends, clockVars>>

\* Lines 132-140: the count event is built; its Value reads len(s.wsClients),
\* without clientMux.
RP_Value ==
  /\ ~crashed
  /\ rpPc = "value"
  /\ reported' = count
  /\ rpPc' = "send"
  /\ UNCHANGED <<regVars, mux, crashed, hwVars, feVars, pgVars, hcVars,
                 connVars, messenger, rpLogged, rpRounds, rpSends, clockVars>>

\* A round that ends the reporter when there is no messenger.
RP_SendOrStop ==
  /\ ~crashed
  /\ rpPc = "send"
  /\ rpSends' = IF messenger = "ok" THEN Counted(rpSends) ELSE rpSends
  /\ rpPc' = IF messenger = "ok" THEN "sleep" ELSE "done"
  /\ UNCHANGED <<regVars, mux, crashed, hwVars, feVars, pgVars, hcVars,
                 connVars, messenger, reported, rpLogged, rpRounds, clockVars>>

\* Lines 141-143: messenger.SendEvent(countEvent) when there is a messenger
\* (SendEvent returns nothing), no send otherwise.
RP_Send ==
  /\ ~crashed
  /\ rpPc = "send"
  /\ rpSends' = IF messenger = "ok" THEN Counted(rpSends) ELSE rpSends
  /\ rpPc' = "sleep"
  /\ UNCHANGED <<regVars, mux, crashed, hwVars, feVars, pgVars, hcVars,
                 connVars, messenger, reported, rpLogged, rpRounds, clockVars>>

\* Line 144: time.Sleep(1 * time.Minute) returns and the loop goes round; the
\* locals of the round are gone.
RP_Sleep ==
  /\ ~crashed
  /\ rpPc = "sleep"
  /\ rpPc' = "log"
  /\ rpLogged' = -1
  /\ reported' = -1
  /\ UNCHANGED <<regVars, mux, crashed, hwVars, feVars, pgVars, hcVars,
                 connVars, messenger, rpRounds, rpSends, clockVars>>

\* Lines 130-145: one step of a round of the loop.
RP_Report == RP_Log \/ RP_Value \/ RP_Send \/ RP_Sleep

\* ------------------------------------------------- faults of the runtime
\* The unlocked delete of handleClose (line 102) is in progress while another
\* goroutine is inside its critical section on the map or inside the same
\* delete: a data race on the map.
MapRace ==
  \E r \in Reqs :
    /\ hcPc[r] = "deleting"
    /\ mux # NoTask \/ \E q \in Reqs \ {r} : hcPc[q] = "deleting"

\* The Go runtime may notice the race and stop the process ("fatal error:
\* concurrent map writes", "concurrent map iteration and map write").
MapFault ==
  /\ ~crashed
  /\ MapRace
  /\ crashed' = TRUE
  /\ UNCHANGED <<regVars, mux, hwVars, feVars, pgVars, hcVars, connVars,
                 rpVars, clockVars>>

\* Two goroutines are inside a write method of the same connection (lines 69,
\* 73, 92, 103 take no per-connection lock).
WriteRace == \E c \in Conns : Cardinality(writers[c]) > 1

\* The websocket library may notice it and panic ("concurrent write to
\* websocket connection").
WriteFault ==
  /\ ~crashed
  /\ WriteRace
  /\ crashed' = TRUE
  /\ UNCHANGED <<regVars, mux, hwVars, feVars, pgVars, hcVars, connVars,
                 rpVars, clockVars>>

\* --------------------------------------------------------------- the clock
\* A step that takes no time is pending, or a timer is due.
Urgent ==
  \/ \E r \in Reqs : hwPc[r] \in {"locked", "goreader", "goping", "unlock"}
  \/ \E r \in Reqs : hwPc[r] = "lock" /\ mux = NoTask
  \/ fePc \in {"iter", "delete", "closeframe", "close", "ret"}
  \/ fePc = "lock" /\ mux = NoTask
  \/ \E r \in Reqs : pgPc[r] = "start"
  \/ \E r \in Reqs : pgPc[r] = "wait" /\ now >= nextPing[r]
  \/ \E r \in Reqs : hcPc[r] \in {"start", "deferred", "deleting", "closeframe", "close"}
  \/ \E r \in Reqs : hcPc[r] = "read" /\ now >= readDeadline[r] /\ closeCalls[r] = 0
  \/ \E r \in Reqs : hcPc[r] = "read" /\ (closeCalls[r] > 0 \/ peer[r] = "gone")
  \/ \E r \in Reqs : hcPc[r] = "read" /\ pongs[r]
  \/ \E c \in Conns : \E w \in writers[c] : w[3] # 0 /\ now + TickStep > w[3]

\* Time passes.  A write in progress may last until the write deadline it
\* runs under (without end when none was ever set); everything else takes no
\* time.
Tick ==
  /\ ~crashed
  /\ ~Urgent
  /\ now + TickStep <= MaxTime
  /\ now' = now + TickStep
  /\ UNCHANGED <<regVars, mux, crashed, hwVars, feVars, pgVars, hcVars,
                 connVars, rpVars, readDeadline, writeDeadline, nextPing,
                 silentAt>>

\* ------------------------------------------------------ specifications
Next ==
  \/ \E r \in Reqs : HW_Upgrade(r)
  \/ \E r \in Reqs : HW_Lock(r)
  \/ \E r \in Reqs : HW_Register(r)
  \/ \E r \in Reqs : HW_GoReader(r)
  \/ \E r \in Reqs : HW_GoPing(r)
  \/ \E r \in Reqs : HW_Unlock(r)
  \/ \E k \in Keys : FE_Call(k)
  \/ FE_Lock
  \/ FE_Next
  \/ FE_WriteEnd
  \/ FE_Delete
  \/ FE_CloseFrameBegin
  \/ FE_CloseFrameEnd
  \/ FE_Close
  \/ FE_Unlock
  \/ FE_Return
  \/ \E r \in Reqs : PG_Start(r)
  \/ \E r \in Reqs : PG_Tick(r)
  \/ \E r \in Reqs : PG_WriteEnd(r)
  \/ \E r \in Reqs : HC_Start(r)
  \/ \E r \in Reqs : HC_ReadErr(r)
  \/ \E r \in Reqs : HC_Timeout(r)
  \/ \E r \in Reqs : HC_DeleteBegin(r)
  \/ \E r \in Reqs : HC_DeleteEnd(r)
  \/ \E r \in Reqs : HC_CloseFrameBegin(r)
  \/ \E r \in Reqs : HC_CloseFrameEnd(r)
  \/ \E r \in Reqs : HC_Close(r)
  \/ \E c \in Conns : PeerGone(c)
  \/ MapFault
  \/ WriteFault

Spec == Init /\ [][Next]_vars

\* The clock runs.  One upgrade request is followed: the reader and the
\* heartbeat of a connection never look at another connection.
ReqsT == {1}

NextT ==
  \/ \E r \in ReqsT : HW_Upgrade(r)
  \/ \E r \in ReqsT : HW_Lock(r)
  \/ \E r \in ReqsT : HW_Register(r)
  \/ \E r \in ReqsT : HW_GoReader(r)
  \/ \E r \in ReqsT : HW_GoPing(r)
  \/ \E r \in ReqsT : HW_Unlock(r)
  \/ \E k \in Keys : FE_Call(k)
  \/ FE_Lock
  \/ FE_Next
  \/ FE_WriteEnd
  \/ FE_Delete
  \/ FE_CloseFrameBegin
  \/ FE_CloseFrameEnd
  \/ FE_Close
  \/ FE_Unlock
  \/ FE_Return
  \/ \E r \in ReqsT : PG_Start(r)
  \/ \E r \in ReqsT : PG_TickT(r)
  \/ \E r \in ReqsT : PG_WriteEndT(r)
  \/ \E r \in ReqsT : HC_Start(r)
  \/ \E r \in ReqsT : HC_Pong(r)
  \/ \E r \in ReqsT : HC_ReadErr(r)
  \/ \E r \in ReqsT : HC_TimeoutT(r)
  \/ \E r \in ReqsT : HC_DeleteBegin(r)
  \/ \E r \in ReqsT : HC_DeleteEnd(r)
  \/ \E r \in ReqsT : HC_CloseFrameBegin(r)
  \/ \E r \in ReqsT : HC_CloseFrameEnd(r)
  \/ \E r \in ReqsT : HC_Close(r)
  \/ \E c \in ReqsT : PeerSilent(c)
  \/ \E c \in ReqsT : PeerGone(c)
  \/ MapFault
  \/ WriteFault
  \/ Tick

SpecT == Init /\ [][NextT]_vars

\* One step of HandleWebsocket for request r once Upgrade has returned.
HW_Step(r) ==
  HW_Lock(r) \/ HW_Register(r) \/ HW_GoReader(r) \/ HW_GoPing(r) \/ HW_Unlock(r)

\* One step of a call of ForwardEvent that has passed the filter, or its return.
FE_Step ==
  \/ FE_Lock
  \/ FE_Next
  \/ FE_WriteEnd
  \/ FE_Delete
  \/ FE_CloseFrameBegin
  \/ FE_CloseFrameEnd
  \/ FE_Close
  \/ FE_Unlock
  \/ FE_Return

\* One step of the goroutine pingWebSocket of request r.
PG_Step(r) == PG_Start(r) \/ PG_Tick(r) \/ PG_WriteEndL(r)

\* One step of the goroutine handleClose of request r that does not wait for
\* the peer or the clock.
HC_Step(r) ==
  \/ HC_Start(r)
  \/ HC_ReadErr(r)
  \/ HC_DeleteBegin(r)
  \/ HC_DeleteEnd(r)
  \/ HC_CloseFrameBegin(r)
  \/ HC_CloseFrameEnd(r)
  \/ HC_Close(r)

\* The clock stands still, one upgrade request is followed, the read deadline
\* may pass at any moment and the errors of the ping writes are remembered.
NextL ==
  \/ \E r \in ReqsT : HW_Upgrade(r)
  \/ \E r \in ReqsT : HW_Step(r)
  \/ \E k \in Keys : FE_Call(k)
  \/ FE_Step
  \/ \E r \in ReqsT : PG_Step(r)
  \/ \E r \in ReqsT : HC_Step(r)
  \/ \E r \in ReqsT : HC_Timeout(r)
  \/ \E c \in ReqsT : PeerGone(c)
  \/ MapFault
  \/ WriteFault

\* The scheduler runs every goroutine that can take a step; the ticker goes
\* on firing and a write that has begun returns.  Nothing obliges the hub to
\* send events, the clients to connect or to leave, or the runtime to notice
\* a race.
FairL ==
  /\ \A r \in ReqsT : WF_vars(HW_Step(r))
  /\ WF_vars(FE_Step)
  /\ \A r \in ReqsT : WF_vars(PG_Step(r))
  /\ \A r \in ReqsT : WF_vars(HC_Step(r))

SpecL == Init /\ [][NextL]_vars /\ FairL

\* The clock stands still; the events carry a value and what each write of
\* ForwardEvent puts on the wire is remembered.
NextE ==
  \/ \E r \in Reqs : HW_Upgrade(r)
  \/ \E r \in Reqs : HW_Step(r)
  \/ \E e \in Events : FE_CallE(e[1], e[2])
  \/ FE_Lock
  \/ FE_Next
  \/ FE_WriteEndE
  \/ FE_Delete
  \/ FE_CloseFrameBegin
  \/ FE_CloseFrameEnd
  \/ FE_Close
  \/ FE_Unlock
  \/ FE_Return
  \/ \E r \in Reqs : PG_Start(r)
  \/ \E r \in Reqs : PG_Tick(r)
  \/ \E r \in Reqs : PG_WriteEnd(r)
  \/ \E r \in Reqs : HC_Step(r)
  \/ \E r \in Reqs : HC_Timeout(r)
  \/ \E c \in Conns : PeerGone(c)
  \/ MapFault
  \/ WriteFault

SpecE == Init /\ [][NextE]_vars

\* The clock stands still; the reporter runs beside one upgrade request, the
\* broadcaster and the tasks of the connection.
NextR ==
  \/ RP_Build
  \/ RP_Report
  \/ \E r \in ReqsT : HW_Upgrade(r)
  \/ \E r \in ReqsT : HW_Step(r)
  \/ \E k \in Keys : FE_Call(k)
  \/ FE_Step
  \/ \E r \in ReqsT : PG_Start(r)
  \/ \E r \in ReqsT : PG_Tick(r)
  \/ \E r \in ReqsT : PG_WriteEnd(r)
  \/ \E r \in ReqsT : HC_Step(r)
  \/ \E r \in ReqsT : HC_Timeout(r)
  \/ \E c \in ReqsT : PeerGone(c)
  \/ MapFault
  \/ WriteFault

SpecR == Init /\ [][NextR]_vars

\* ------------------------------------------------------------ properties
\* The range loop of ForwardEvent has produced every key and the pass is about
\* to release clientMux.
EndOfPass == ~crashed /\ fePc = "iter" /\ wsClients \ feVisited = {}

\* The allow-set of the filter policy, as the specification states it.
AllowSet == {"login", "card-read-error"}

\* Connections on which this call of ForwardEvent has attempted a write.
Attempted == feOk \cup feFailed

(* C1: whatever the interleaving of admissions, removals and broadcast     *)
(* passes, the registry size len(wsClients) equals the number of keys      *)
(* that were added to the map and not yet removed from it.                 *)
C1_SizeIsMembers == ~crashed => count = Cardinality(wsClients)

(* C2: at the end of a broadcast pass in which the write to a connection A *)
(* failed, A is out of the registry and closed, every other connection     *)
(* that was registered when the pass took the lock has had a write         *)
(* attempt, and each of them whose write succeeded is still registered.    *)
C2_FailureIsolation ==
  EndOfPass =>
    \A a \in feFailed :
      /\ a \notin wsClients
      /\ closeCalls[a] >= 1
      /\ \A b \in (feAtLock \cap Conns) \ {a} :
           /\ b \in Attempted
           /\ b \in feOk => b \in wsClients

(* C3, as claimed: a call of ForwardEvent has made zero writes if and only *)
(* if the key of its event is not in the allow-set.                        *)
C3_ZeroWritesIffFiltered ==
  (~crashed /\ fePc = "ret") => (Attempted = {} <=> feKey \notin AllowSet)

(* C3, amended: a call of ForwardEvent with a key outside the allow-set    *)
(* makes no write; a call with a key in the allow-set ends its pass with   *)
(* a successful write on every connection still registered, so it makes    *)
(* zero writes only if it leaves the registry empty.                       *)
C3_FilterCorrect ==
  /\ (~crashed /\ fePc = "ret" /\ feKey \notin AllowSet) => Attempted = {}
  /\ EndOfPass => (feKey \in AllowSet /\ wsClients \subseteq feOk)

\* A filtered event has returned with no write while a connection is registered.
C3_Witness ==
  /\ ~crashed
  /\ fePc = "ret"
  /\ feKey = "heartbeat-data"
  /\ \E c \in Conns : c \in wsClients /\ closeCalls[c] = 0

(* C4: Close is called on the channel of every connection at most once.    *)
C4_CloseAtMostOnce == \A c \in Conns : closeCalls[c] <= 1

\* The broadcaster has seen its write on connection c fail (line 70), or the
\* reader of c has seen ReadMessage fail or time out (line 111).
FailureObserved(c) == c \in feFailed \/ hcCause[c] # "none"

(* C5: every connection in the registry is open: no connection whose       *)
(* channel has been closed, and none on which the broadcaster or the       *)
(* reader has observed a write or read failure, is a member of wsClients.  *)
C5_NoKnownDeadMember ==
  \A c \in Conns :
    c \in wsClients => closeCalls[c] = 0 /\ ~FailureObserved(c)

(* C5, amended: no member of the registry has had its channel closed or a  *)
(* close frame written to it.  A connection on which a failure has been    *)
(* observed is a member only until the observer's delete has run: for the  *)
(* broadcaster, which holds clientMux, while it stands before line 72; for *)
(* the reader, which holds no lock, while it stands before line 102.       *)
C5_MembersOpen ==
  \A c \in Conns :
    c \in wsClients =>
      /\ closeCalls[c] = 0
      /\ closeFrames[c] = 0
      /\ ~(fePc \in {"closeframe", "cfwriting", "close"} /\ feCur = c)
      /\ hcPc[c] \notin {"closeframe", "cfwriting", "close", "done"}
      /\ c \in feFailed => mux = FE /\ fePc = "delete" /\ feCur = c
      /\ hcCause[c] # "none" => hcPc[c] \in {"deferred", "deleting"}

\* One connection has been taken out of the registry and closed, while the
\* reader of another has seen its read fail and has not run its delete yet:
\* that one is a member still and the broadcaster is writing the event to it.
C5_Witness ==
  \E c \in Conns : \E d \in Conns \ {c} :
    /\ ~crashed
    /\ d \notin wsClients
    /\ closeCalls[d] >= 1
    /\ c \in wsClients
    /\ closeCalls[c] = 0
    /\ hcCause[c] # "none"
    /\ fePc = "writing"
    /\ feCur = c

(* C6: every step that adds a key to the registry or removes one is taken  *)
(* by the goroutine that holds clientMux; in particular, while             *)
(* ForwardEvent holds it, only ForwardEvent's own delete changes the       *)
(* registry.                                                               *)
C6_LockDiscipline ==
  [][(wsClients' # wsClients) =>
       \/ mux = FE /\ fePc = "delete" /\ fePc' = "closeframe"
       \/ \E r \in Reqs : mux = HW(r) /\ hwPc[r] = "locked" /\ hwPc'[r] = "goreader"]_vars

(* C7: no two goroutines are inside a write on the same connection at the  *)
(* same time.                                                              *)
C7_OneWriter == \A c \in Conns : Cardinality(writers[c]) <= 1

(* C8: a request whose upgrade failed adds nothing to the registry and     *)
(* starts neither the reader nor the heartbeat task.                       *)
C8_FailedUpgradeNoEffect ==
  /\ NIL \notin wsClients
  /\ \A r \in Reqs : upg[r] = "fail" => hcPc[r] = "none" /\ pgPc[r] = "none"

(* C9: a connection whose peer answers every ping and on which no read     *)
(* error occurs is never taken out of the registry by its reader: the      *)
(* reader stays blocked in ReadMessage and the connection stays            *)
(* registered.                                                             *)
C9_ResponsiveNotReaped ==
  \A r \in Reqs :
    (~crashed /\ upg[r] = "ok" /\ peer[r] = "up" /\ hcPc[r] # "none") =>
      /\ hcPc[r] \in {"start", "read"}
      /\ hcCause[r] = "none"
      /\ r \in wsClients
      /\ hcPc[r] = "read" => now <= readDeadline[r]

\* A responsive connection is still registered and read after its first read
\* deadline and a full heartbeat period more have passed.
C9_Witness ==
  \E r \in Reqs :
    /\ ~crashed
    /\ upg[r] = "ok"
    /\ peer[r] = "up"
    /\ hcPc[r] = "read"
    /\ r \in wsClients
    /\ now >= pongWait + pingPeriod
    /\ readDeadline[r] > now

\* The peer of connection c has stopped answering and is still there; its
\* reader has set the read deadline.
Silent(c) ==
  /\ ~crashed
  /\ upg[c] = "ok"
  /\ peer[c] = "silent"
  /\ hcPc[c] \notin {"none", "start"}

(* C10, as claimed: a registered connection that has stopped answering is  *)
(* out of the registry and closed once the read deadline (pongWait after   *)
(* the last frame received) has passed, and in any case once pongWait plus *)
(* pingPeriod have passed since it went silent.                            *)
C10_ClosedAtReadDeadline ==
  \A c \in Conns :
    Silent(c) =>
      /\ now > readDeadline[c] => c \notin wsClients /\ closeCalls[c] >= 1
      /\ now > silentAt[c] + pongWait + pingPeriod =>
           c \notin wsClients /\ closeCalls[c] >= 1

(* C10, amended: such a connection is out of the registry once the read    *)
(* deadline has passed and closed once writeWait more has passed (the      *)
(* close frame is written first), and in any case out of the registry and  *)
(* closed once pongWait plus pingPeriod have passed since it went silent.  *)
C10_BoundedDetection ==
  \A c \in Conns :
    Silent(c) =>
      /\ now > readDeadline[c] => c \notin wsClients
      /\ now > readDeadline[c] + writeWait => closeCalls[c] >= 1
      /\ now > silentAt[c] + pongWait + pingPeriod =>
           c \notin wsClients /\ closeCalls[c] >= 1

\* A connection that went silent after it had answered a ping has been taken
\* out by the reader on a timeout and closed.
C10_Witness ==
  \E c \in Conns :
    /\ Silent(c)
    /\ hcCause[c] = "timeout"
    /\ readDeadline[c] > pongWait
    /\ c \notin wsClients
    /\ closeCalls[c] >= 1

\* Connection c was registered and is out of the registry again.
Removed(c) ==
  /\ upg[c] = "ok"
  /\ hwPc[c] \in {"goreader", "goping", "unlock", "done"}
  /\ c \notin wsClients

(* C11: whenever a connection has been removed from the registry, by the   *)
(* broadcaster or by its reader, both of its tasks eventually end: the     *)
(* goroutines pingWebSocket and handleClose return (or the process has     *)
(* ended).                                                                 *)
C11_TasksTerminate ==
  \A c \in ReqsT :
    [](Removed(c) => <>(crashed \/ (pgPc[c] = "done" /\ hcPc[c] = "done")))

(* C12: once a ping write of pingWebSocket on a connection has returned an *)
(* error, that goroutine is never inside a ping write on that connection   *)
(* again.                                                                  *)
C12_NoPingAfterError == \A r \in Reqs : pgErr[r] => pgPc[r] # "writing"

(* C13: the steps ForwardEvent takes while it holds clientMux, up to and   *)
(* including Unlock, leave the registry as it is: the connections whose    *)
(* write failed are not dropped while the pass is iterating, but only      *)
(* after a write has been attempted on every member.                       *)
C13_RemovalAfterPass ==
  [][(mux = FE /\ fePc' # fePc) => wsClients' = wsClients]_vars

\* A goroutine is inside the write of a close frame on connection c.
ClosingFrame(c) ==
  \/ fePc = "cfwriting" /\ feCur = c
  \/ hcPc[c] = "cfwriting"

(* C14: on both closing paths the connection is out of the registry before *)
(* its close frame is written and the close frame is written before the    *)
(* channel is closed: while a close frame is being written to a connection *)
(* the connection is not registered and its channel has not been closed,   *)
(* and a channel is closed only after a close frame was written to it.     *)
C14_CloseHandshakeOrder ==
  \A c \in Conns :
    /\ ClosingFrame(c) => c \notin wsClients /\ closeCalls[c] = 0
    /\ closeCalls[c] >= 1 => closeFrames[c] >= 1 /\ c \notin wsClients

\* The stage of the life of connection c: 0 before it is registered, 1 (OPEN)
\* while it is a member of the registry, 2 (CLOSING) once it has been taken
\* out and its channel is not closed yet, 3 (REMOVED) once it is out and
\* closed.
Phase(c) ==
  IF c \in wsClients THEN 1
  ELSE IF closeCalls[c] >= 1 THEN 3
  ELSE IF upg[c] = "ok" /\ hwPc[c] \in {"goreader", "goping", "unlock", "done"} THEN 2
  ELSE 0

(* C15: in every step the stage of every connection stays or advances      *)
(* (OPEN, then CLOSING, then REMOVED): a connection that has been taken    *)
(* out of the registry never becomes a member again, and a channel that    *)
(* has been closed is never open again.                                    *)
C15_NoResurrection ==
  [][\A c \in Conns :
       /\ Phase(c)' >= Phase(c)
       /\ closeCalls[c] >= 1 => closeCalls'[c] >= 1]_vars

\* A connection has been taken out and closed and its reader has ended, and
\* afterwards a broadcast pass has written to another, registered connection.
C15_Witness ==
  \E c \in Conns : \E d \in Conns \ {c} :
    /\ ~crashed
    /\ Phase(c) = 3
    /\ hcPc[c] = "done"
    /\ Phase(d) = 1
    /\ EndOfPass
    /\ c \notin feAtLock
    /\ d \in feOk

\* The broadcast pass is over: it has produced every key and is about to
\* release clientMux, or the process died while ForwardEvent held clientMux.
PassOver == mux = FE /\ (crashed \/ (fePc = "iter" /\ wsClients \ feVisited = {}))

\* Connection c was registered when the pass took the lock, is registered
\* still, and its channel is open at both ends.
ThroughoutPass(c) ==
  /\ c \in feAtLock
  /\ c \in wsClients
  /\ closeCalls[c] = 0
  /\ peer[c] # "gone"

(* C16: when a broadcast pass for a qualifying event is over, every        *)
(* connection that was registered and open for the whole pass has been     *)
(* sent exactly one message, and that message carries the key and the      *)
(* value of the event.                                                     *)
C16_ExactlyOnce ==
  PassOver =>
    \A c \in Conns :
      ThroughoutPass(c) => feSent[c] = <<WireRecord(feKey, feVal)>>

\* The call of ForwardEvent in progress has an event whose key is not in the
\* allow-set.
Filtered == feKey # "none" /\ feKey \notin AllowSet

(* C17: a call of ForwardEvent with a key outside the allow-set never      *)
(* holds or waits for clientMux, and none of its steps changes the         *)
(* registry, closes a connection or writes to one, whatever the other      *)
(* goroutines are doing.                                                   *)
C17_FilteredNoEffect ==
  /\ [](Filtered => fePc = "ret" /\ mux # FE)
  /\ [][(fePc' # fePc /\ (Filtered \/ Filtered')) =>
          /\ mux' = mux
          /\ wsClients' = wsClients
          /\ count' = count
          /\ closeCalls' = closeCalls
          /\ closeFrames' = closeFrames
          /\ writers' = writers]_vars

\* A filtered event has gone through ForwardEvent while HandleWebsocket held
\* clientMux and a connection was registered.
C17_Witness ==
  /\ ~crashed
  /\ Filtered
  /\ fePc = "ret"
  /\ \E r \in Reqs : mux = HW(r)
  /\ \E c \in Conns : c \in wsClients /\ closeCalls[c] = 0

\* The reporter is inside its loop (or about to enter it).
RP_Alive == rpPc \in {"build", "log", "value", "send", "sleep"}

(* C18: reportWebSocketCount never ends, with or without a messenger: it   *)
(* is always at a statement of its loop from which it can go on; every     *)
(* round reads the registry size for the count event once; no step of the  *)
(* reporter changes the registry or takes clientMux; and without a         *)
(* messenger the only thing a round leaves out is the send.                *)
C18_ReporterSurvives ==
  /\ [](RP_Alive /\ (~crashed => ENABLED (RP_Build \/ RP_Report)))
  /\ [](rpPc \in {"send", "sleep"} <=> reported # -1)
  /\ [](messenger = "nil" => rpSends = 0)
  /\ [][(rpPc' # rpPc) =>
          /\ wsClients' = wsClients
          /\ count' = count
          /\ mux' = mux
          /\ (rpPc = "value" => reported' = count /\ rpPc' = "send")
          /\ (rpPc = "send" =>
                /\ rpPc' = "sleep"
                /\ rpSends' = IF messenger = "nil" THEN rpSends
                              ELSE Counted(rpSends))]_vars

\* BuildMessenger failed, and the reporter is in a later round of its loop
\* and has read a size of the registry that is not 0; nothing was sent.
C18_Witness ==
  /\ ~crashed
  /\ messenger = "nil"
  /\ rpRounds >= 2
  /\ rpPc = "send"
  /\ reported >= 1
  /\ rpSends = 0

\* The process died of a fault outside ForwardEvent: ForwardEvent itself has
\* not panicked (it panics when its loop produces the nil key).
KilledElsewhere == crashed /\ NIL \notin feVisited

(* C19: every broadcast pass ends and releases the registry lock: whenever *)
(* ForwardEvent holds clientMux it eventually gives it up on every path of *)
(* its own (unless a fault elsewhere ends the process first), so that a    *)
(* HandleWebsocket or a later ForwardEvent waiting for the lock can go on. *)
C19_PassReleasesLock == [](mux = FE => <>(mux # FE \/ KilledElsewhere))

\* The goroutine handleClose of connection c has been started and has not
\* returned.
ReaderAlive(c) == hcPc[c] \in {"start", "read", "deferred", "deleting",
                               "closeframe", "cfwriting", "close"}

(* C20: in every state every connection that is a member of the registry  *)
(* has a reader goroutine handleClose that has been started and has not    *)
(* ended.                                                                  *)
C20_MembersSupervised == \A c \in Conns : c \in wsClients => ReaderAlive(c)

(* C20, amended: every member of the registry has a reader that has been   *)
(* started and has not yet run the delete with which it takes the          *)
(* connection out, except while the HandleWebsocket call that inserted the *)
(* connection stands between lines 53 and 54, still holding clientMux; so  *)
(* whenever HandleWebsocket does not hold the lock every member is         *)
(* supervised.                                                             *)
C20_SupervisedOnceStarted ==
  /\ \A c \in Conns :
       c \in wsClients =>
         \/ hwPc[c] = "goreader" /\ mux = HW(c) /\ hcPc[c] = "none"
         \/ hcPc[c] \in {"start", "read", "deferred", "deleting"}
  /\ (\A r \in Reqs : mux # HW(r)) =>
       \A c \in Conns : c \in wsClients => ReaderAlive(c)

\* A registered connection is being read by its reader while the reader of
\* another connection, which is out of the registry, has ended.
C20_Witness ==
  \E c \in Conns : \E d \in Conns \ {c} :
    /\ ~crashed
    /\ c \in wsClients
    /\ hcPc[c] = "read"
    /\ d \notin wsClients
    /\ hcPc[d] = "done"

====
